---- MODULE Spec2Model ----
(***************************************************************************)
(* Model of the todo controller (src/controllers/todoController.js): the   *)
(* six request handlers over the Firestore collection 'todos'.             *)
(*                                                                         *)
(* Times are integer milliseconds (the value of Date.getTime()); the ISO   *)
(* strings the code stores order exactly as these integers do.             *)
(* An optional value (a deadline, a cursor) is a sequence of length 0 or 1.*)
(* A string the code parses is the sequence of its characters.             *)
(* A JavaScript object (a request body, a query string, a document) is a   *)
(* function from its property names; a missing property is a name outside  *)
(* its DOMAIN.                                                             *)
(***************************************************************************)
EXTENDS Integers, Sequences, FiniteSets, Bags, TLC

VARIABLES store, nextId, now, inflight, resp, born, deletedOk

vars == <<store, nextId, now, inflight, resp, born, deletedOk>>

\* ---------------------------------------------------------------- bounds
MaxDocs == 2       \* documents created in a run of the CRUD specification
MaxNow == 2        \* the last instant of the clock in the CRUD specification
MaxReq == 2        \* update / delete requests in flight at once

Statuses == {"pending", "in-progress", "completed"}

DocIds == 1..MaxDocs

\* ------------------------------------------------------- object helpers
\* {...a, ...b}: the properties of a overridden by those of b.
Spread(a, b) ==
    [k \in (DOMAIN a) \cup (DOMAIN b) |-> IF k \in DOMAIN b THEN b[k] ELSE a[k]]

\* const { k1, k2, ... } = obj, rebuilt as an object: only the named properties.
Pick(obj, keys) == [k \in (DOMAIN obj) \cap keys |-> obj[k]]

\* The empty object {}.
EmptyObj == <<>>

\* ------------------------------------------------ the Todo model (models/Todo.js)
\* Validation: title present and not blank, status one of the three values.
TodoErrors(data) ==
    (IF "title" \notin DOMAIN data \/ data.title \in {"", " "} THEN {"title"} ELSE {})
    \cup
    (IF "status" \in DOMAIN data /\ data.status \notin Statuses THEN {"status"} ELSE {})

\* new Todo(data).toFirestore() at time t: defaults for what data leaves out.
TodoToFirestore(data, t) ==
    [ title       |-> data.title,
      description |-> IF "description" \in DOMAIN data THEN data.description ELSE "",
      status      |-> IF "status" \in DOMAIN data THEN data.status ELSE "pending",
      deadline    |-> IF "deadline" \in DOMAIN data THEN data.deadline ELSE <<>>,
      createdAt   |-> IF "createdAt" \in DOMAIN data THEN data.createdAt ELSE t,
      updatedAt   |-> IF "updatedAt" \in DOMAIN data THEN data.updatedAt ELSE t ]

\* ------------------------------------------------------------ the store
\* store is the collection: a function from the ids of the documents that
\* exist to their data.
Exists(id) == id \in DOMAIN store

\* collection.add(data): a new document under an id never used before.
StoreAdd(id, data) == [i \in (DOMAIN store) \cup {id} |-> IF i = id THEN data ELSE store[i]]

\* docRef.set(data, {merge: true}) in place of update(): writes the
\* document whether or not it exists.
StoreSetMerge(id, data) ==
    [ok |-> TRUE,
     docs |-> StoreAdd(id, IF Exists(id) THEN Spread(store[id], data) ELSE data)]

\* docRef.update(data): overwrites the given fields of an existing document
\* and fails (the promise rejects) when the document does not exist.
StoreUpdate(id, data) ==
    IF Exists(id)
    THEN [ok |-> TRUE, docs |-> [store EXCEPT ![id] = Spread(store[id], data)]]
    ELSE [ok |-> FALSE, docs |-> store]

\* docRef.delete(): removes the document; succeeds when it is missing too.
StoreDelete(id) == [i \in (DOMAIN store) \ {id} |-> store[i]]

\* ------------------------------------------------------------ requests
\* inflight is the bag of update and delete requests that have read their
\* document and not yet written: each handler awaits todoRef.get() and then
\* the write, and other requests run between the two.
DeleteReq(id) == [op |-> "delete", id |-> id, body |-> <<>>, doc |-> <<>>]
UpdateReq(id, body, doc) == [op |-> "update", id |-> id, body |-> body, doc |-> doc]

\* A list request that has been received with query string q.
ListReq(q) == [op |-> "list", id |-> 0, body |-> q, doc |-> <<>>]

NoResp == [op |-> "none", code |-> 0, id |-> 0]

CreateBodies ==
    { [title |-> "a"],
      [title |-> ""],
      [title |-> "a", status |-> "completed", createdAt |-> MaxNow + 1] }

UpdateBodies ==
    { [status |-> "in-progress"],
      [title |-> ""] }

\* Bodies that also carry the server-stamped field.
StampBodies == UpdateBodies \cup { [createdAt |-> MaxNow + 1] }

Init ==
    /\ store = <<>>
    /\ nextId = 1
    /\ now = 1
    /\ inflight = EmptyBag
    /\ resp = NoResp
    /\ born = <<>>
    /\ deletedOk = {}

\* The wall clock advances.
Tick ==
    /\ now < MaxNow
    /\ now' = now + 1
    /\ UNCHANGED <<store, nextId, inflight, resp, born, deletedOk>>

\* createTodo: validation failure -> 400; otherwise the document is added
\* under a fresh id and 201 is returned.
CreateTodo(body) ==
    LET data == Pick(body, {"title", "description", "status", "deadline"})
    IN
    IF TodoErrors(data) # {}
    THEN /\ resp' = [op |-> "create", code |-> 400, id |-> 0]
         /\ UNCHANGED <<store, nextId, now, inflight, born, deletedOk>>
    ELSE /\ nextId <= MaxDocs
         /\ store' = StoreAdd(nextId, TodoToFirestore(data, now))
         /\ born' = [i \in (DOMAIN born) \cup {nextId} |->
                        IF i = nextId THEN now ELSE born[i]]
         /\ nextId' = nextId + 1
         /\ resp' = [op |-> "create", code |-> 201, id |-> nextId]
         /\ UNCHANGED <<now, inflight, deletedOk>>

\* getTodoById: 404 when the document does not exist, else 200.
GetTodoById(id) ==
    /\ resp' = [op |-> "get", code |-> IF Exists(id) THEN 200 ELSE 404, id |-> id]
    /\ UNCHANGED <<store, nextId, now, inflight, born, deletedOk>>

\* updateTodo, up to the await of todoRef.get(): 404 when missing, else the
\* handler holds the snapshot it read.
UpdateRead(id, body) ==
    /\ IF ~Exists(id)
       THEN /\ resp' = [op |-> "update", code |-> 404, id |-> id]
            /\ UNCHANGED inflight
       ELSE /\ BagCardinality(inflight) < MaxReq
            /\ inflight' = inflight (+) SetToBag({UpdateReq(id, body, store[id])})
            /\ UNCHANGED resp
    /\ UNCHANGED <<store, nextId, now, born, deletedOk>>

\* updateTodo, from the merge to the response: validation failure -> 400;
\* update() of a document deleted meanwhile fails -> 500; else 200.
UpdateWrite(q) ==
    /\ q.op = "update"
    /\ BagIn(q, inflight)
    /\ LET data == Spread(Spread(q.doc, q.body), [updatedAt |-> now])
       IN
       IF TodoErrors(data) # {}
       THEN /\ resp' = [op |-> "update", code |-> 400, id |-> q.id]
            /\ UNCHANGED store
       ELSE LET w == StoreUpdate(q.id, TodoToFirestore(data, now))
            IN /\ store' = w.docs
               /\ resp' = [op |-> "update", code |-> IF w.ok THEN 200 ELSE 500,
                            id |-> q.id]
    /\ inflight' = inflight (-) SetToBag({q})
    /\ UNCHANGED <<nextId, now, born, deletedOk>>

\* deleteTodo, up to the await of todoRef.get(): 404 when missing.
DeleteRead(id) ==
    /\ IF ~Exists(id)
       THEN /\ resp' = [op |-> "delete", code |-> 404, id |-> id]
            /\ UNCHANGED inflight
       ELSE /\ BagCardinality(inflight) < MaxReq
            /\ inflight' = inflight (+) SetToBag({DeleteReq(id)})
            /\ UNCHANGED resp
    /\ UNCHANGED <<store, nextId, now, born, deletedOk>>

\* deleteTodo, from todoRef.delete() to the response: always 200.
DeleteWrite(id) ==
    /\ BagIn(DeleteReq(id), inflight)
    /\ store' = StoreDelete(id)
    /\ resp' = [op |-> "delete", code |-> 200, id |-> id]
    /\ deletedOk' = deletedOk \cup {id}
    /\ inflight' = inflight (-) SetToBag({DeleteReq(id)})
    /\ UNCHANGED <<nextId, now, born>>

\* Requests against the collection, interleaved at their awaits.
Next ==
    \/ \E body \in CreateBodies : CreateTodo(body)
    \/ \E id \in DocIds : GetTodoById(id)
    \/ \E id \in DocIds, body \in UpdateBodies : UpdateRead(id, body)
    \/ \E q \in BagToSet(inflight) : UpdateWrite(q)
    \/ \E id \in DocIds : DeleteRead(id)
    \/ \E id \in DocIds : DeleteWrite(id)

Spec == Init /\ [][Next]_vars

\* Creates and updates while the clock runs.
NextStamp ==
    \/ Tick
    \/ \E body \in CreateBodies : CreateTodo(body)
    \/ \E id \in DocIds, body \in StampBodies : UpdateRead(id, body)
    \/ \E q \in BagToSet(inflight) : UpdateWrite(q)

SpecStamp == Init /\ [][NextStamp]_vars

\* ------------------------------------------------------ JavaScript numbers
\* A number is an integer, NaN or Infinity.
Num(n) == [k |-> "num", v |-> n]
NaN == [k |-> "NaN", v |-> 0]
Infinity == [k |-> "Infinity", v |-> 0]

DefaultLimit == 20
DefaultPage == 1
MsPerDay == 1000 * 60 * 60 * 24

DigitChars == {"0", "1", "2", "3", "4", "5", "6", "7", "8", "9"}

DigitVal(c) ==
    CASE c = "0" -> 0 [] c = "1" -> 1 [] c = "2" -> 2 [] c = "3" -> 3 [] c = "4" -> 4
      [] c = "5" -> 5 [] c = "6" -> 6 [] c = "7" -> 7 [] c = "8" -> 8 [] c = "9" -> 9

\* The longest prefix of s made of digits.
RECURSIVE LeadingDigits(_)
LeadingDigits(s) ==
    IF s = <<>> \/ Head(s) \notin DigitChars
    THEN <<>>
    ELSE <<Head(s)>> \o LeadingDigits(Tail(s))

\* The value of a sequence of digits, most significant first.
RECURSIVE DigitsValue(_)
DigitsValue(ds) ==
    IF ds = <<>> THEN 0
    ELSE 10 * DigitsValue(SubSeq(ds, 1, Len(ds) - 1)) + DigitVal(ds[Len(ds)])

\* parseInt(s): an optional sign, then the leading digits; NaN when there
\* are none; what follows the digits is ignored.
ParseInt(s) ==
    LET signed == s # <<>> /\ Head(s) \in {"-", "+"}
        digits == LeadingDigits(IF signed THEN Tail(s) ELSE s)
    IN  IF digits = <<>> THEN NaN
        ELSE IF signed /\ Head(s) = "-" THEN Num(0 - DigitsValue(digits))
        ELSE Num(DigitsValue(digits))

\* (pageNum - 1) * limitNum
Offset(pageNum, limitNum) ==
    IF pageNum.k = "num" /\ limitNum.k = "num"
    THEN Num((pageNum.v - 1) * limitNum.v)
    ELSE NaN

\* Math.floor(total / limitNum) where the ceiling is meant.
FloorDiv(total, limitNum) ==
    IF limitNum.k # "num" THEN NaN
    ELSE IF limitNum.v = 0 THEN (IF total = 0 THEN NaN ELSE Infinity)
    ELSE IF limitNum.v > 0 THEN Num(total \div limitNum.v)
    ELSE Num(0 - (total \div (0 - limitNum.v)))

\* Math.ceil(total / limitNum), total a count (>= 0).
CeilDiv(total, limitNum) ==
    IF limitNum.k # "num" THEN NaN
    ELSE IF limitNum.v = 0 THEN (IF total = 0 THEN NaN ELSE Infinity)
    ELSE IF limitNum.v > 0 THEN Num(0 - ((0 - total) \div limitNum.v))
    ELSE Num(0 - (total \div (0 - limitNum.v)))

\* a < b on numbers: false when either is NaN.
JsLess(a, b) ==
    /\ a.k # "NaN"
    /\ b.k # "NaN"
    /\ a.k = "num"
    /\ (b.k = "Infinity" \/ a.v < b.v)

\* ----------------------------------------------------------- the list query
\* The filter of line 75 without the check that the value is a status.
StatusFilterUnchecked(q) ==
    IF "status" \in DOMAIN q /\ q.status # "" THEN <<q.status>> ELSE <<>>

\* The status filter: applied only when status is one of the three values.
StatusFilter(q) ==
    IF "status" \in DOMAIN q /\ q.status # "" /\ q.status \in Statuses
    THEN <<q.status>>
    ELSE <<>>

SortBy(q) == IF "sortBy" \in DOMAIN q THEN q.sortBy ELSE "createdAt"

\* order === 'asc' ? 'asc' : 'desc'
SortOrder(q) == IF "order" \in DOMAIN q /\ q.order = "asc" THEN "asc" ELSE "desc"

PageNum(q) == IF "page" \in DOMAIN q THEN ParseInt(q.page) ELSE Num(DefaultPage)
LimitNum(q) == IF "limit" \in DOMAIN q THEN ParseInt(q.limit) ELSE Num(DefaultLimit)

\* The documents a query ranges over: where('status', '==', status).
Matching(filter) ==
    {id \in DOMAIN store : filter = <<>> \/ store[id].status = filter[1]}

\* The order of strings among the three status values.
StatusRank(st) ==
    CASE st = "completed" -> 1 [] st = "in-progress" -> 2 [] st = "pending" -> 3

\* The value a document is ordered by; sortBy is a field every document has.
OrderKey(doc, sortBy) ==
    CASE sortBy = "createdAt" -> doc.createdAt
      [] sortBy = "updatedAt" -> doc.updatedAt
      [] sortBy = "status" -> StatusRank(doc.status)

\* A position in the order: the ordered value, then the document id.
Position(id, sortBy) == [key |-> OrderKey(store[id], sortBy), id |-> id]

\* orderBy(sortBy, dir): a is strictly before b; equal values are ordered by
\* document id, in the same direction.
Before(a, b, dir) ==
    IF dir = "asc"
    THEN a.key < b.key \/ (a.key = b.key /\ a.id < b.id)
    ELSE a.key > b.key \/ (a.key = b.key /\ a.id > b.id)

\* The ids of S in the query's order.
RECURSIVE Ordered(_, _, _)
Ordered(S, sortBy, dir) ==
    IF S = {} THEN <<>>
    ELSE LET x    == CHOOSE y \in S : TRUE
             rest == Ordered(S \ {x}, sortBy, dir)
             k    == Cardinality({i \in 1..Len(rest) :
                        Before(Position(rest[i], sortBy), Position(x, sortBy), dir)})
         IN  SubSeq(rest, 1, k) \o <<x>> \o SubSeq(rest, k + 1, Len(rest))

\* startAt(cursor): the cursor's document is in the result.
StartAt(ids, cursor, sortBy, dir) ==
    IF cursor = <<>> THEN ids
    ELSE SelectSeq(ids, LAMBDA id : ~Before(Position(id, sortBy), cursor[1], dir))

\* startAfter(cursor): the documents strictly after the cursor's position.
StartAfter(ids, cursor, sortBy, dir) ==
    IF cursor = <<>> THEN ids
    ELSE SelectSeq(ids, LAMBDA id : Before(cursor[1], Position(id, sortBy), dir))

\* limit(n): the first n; limit(0) returns nothing.
Limit(ids, n) == SubSeq(ids, 1, IF n < Len(ids) THEN n ELSE Len(ids))

\* query.count().get()
Count(filter) == Cardinality(Matching(filter))

\* query.limit(offset).get(), and the last document of what it returns.
LastDoc(filter, sortBy, dir, offset) ==
    LET skipped == Limit(Ordered(Matching(filter), sortBy, dir), offset)
    IN  IF skipped = <<>> THEN <<>>
        ELSE <<Position(skipped[Len(skipped)], sortBy)>>

\* query.limit(limitNum).startAfter(lastDoc).get()
PageOf(filter, sortBy, dir, cursor, limit) ==
    Limit(StartAfter(Ordered(Matching(filter), sortBy, dir), cursor, sortBy, dir), limit)

\* Math.ceil((deadline - now) / MsPerDay) and the thresholds on it.
DeadlineStatus(deadline, t) ==
    IF deadline = <<>> THEN "none"
    ELSE LET daysUntilDeadline == 0 - ((t - deadline[1]) \div MsPerDay)
         IN  IF daysUntilDeadline < 0 THEN "overdue"
             ELSE IF daysUntilDeadline = 0 THEN "due-today"
             ELSE IF daysUntilDeadline <= 3 THEN "due-soon"
             ELSE "none"

\* getAllTodos on query string q: the response. The three reads (count,
\* skip, page) see the same collection.  limit(NaN) throws and a negative
\* limit is refused by the store: both end in the catch block (500).
ListResponse(q) ==
    LET filter   == StatusFilter(q)
        sortBy   == SortBy(q)
        dir      == SortOrder(q)
        pageNum  == PageNum(q)
        limitNum == LimitNum(q)
        offset   == Offset(pageNum, limitNum)
        total    == Count(filter)
    IN
    IF limitNum.k # "num" \/ limitNum.v < 0
    THEN [op |-> "list", code |-> 500, id |-> 0, q |-> q]
    ELSE
      LET cursor == IF offset.k = "num" /\ offset.v > 0
                    THEN LastDoc(filter, sortBy, dir, offset.v)
                    ELSE <<>>
          ids == PageOf(filter, sortBy, dir, cursor, limitNum.v)
      IN [op |-> "list", code |-> 200, id |-> 0, q |-> q,
          offset |-> offset,
          data |-> [i \in 1..Len(ids) |->
                      [id |-> ids[i],
                       deadlineStatus |-> DeadlineStatus(store[ids[i]].deadline, now)]],
          pagination |->
            [page |-> pageNum,
             limit |-> limitNum,
             total |-> total,
             totalPages |-> CeilDiv(total, limitNum),
             hasNextPage |-> JsLess(pageNum, CeilDiv(total, limitNum)),
             hasPrevPage |-> JsLess(Num(1), pageNum)]]

\* getAllTodos: answers the list request r, which was received with the
\* query string r.body.
GetAllTodos(r) ==
    /\ r.op = "list"
    /\ BagIn(r, inflight)
    /\ resp' = ListResponse(r.body)
    /\ inflight' = inflight (-) SetToBag({r})
    /\ UNCHANGED <<store, nextId, now, born, deletedOk>>

\* ------------------------------------------------------------- statistics
\* The overdue test without the exclusion of completed todos.
IsOverdueAnyStatus(todo, t) ==
    todo.deadline # <<>> /\ todo.deadline[1] < t

\* todo.deadline && new Date(todo.deadline) < now && todo.status !== 'completed'
IsOverdue(todo, t) ==
    todo.deadline # <<>> /\ todo.deadline[1] < t /\ todo.status # "completed"

\* Math.floor where Math.round is meant.
CompletionRateFloor(completed, total) ==
    IF total > 0 THEN (100 * completed) \div total ELSE 0

\* total > 0 ? Math.round((completed / total) * 100) : 0
\* Math.round(x) is floor(x + 1/2).
CompletionRate(completed, total) ==
    IF total > 0 THEN (200 * completed + total) \div (2 * total) ELSE 0

Bump(cond) == IF cond THEN 1 ELSE 0

\* snapshot.forEach over the documents S, in id order, from the counters acc.
RECURSIVE Tally(_, _, _)
Tally(S, acc, t) ==
    IF S = {} THEN acc
    ELSE LET id   == CHOOSE x \in S : \A y \in S : x <= y
             todo == store[id]
         IN  Tally(S \ {id},
                   [total      |-> acc.total + 1,
                    pending    |-> acc.pending + Bump(todo.status = "pending"),
                    inProgress |-> acc.inProgress + Bump(todo.status = "in-progress"),
                    completed  |-> acc.completed + Bump(todo.status = "completed"),
                    overdue    |-> acc.overdue + Bump(IsOverdue(todo, t))],
                   t)

\* getTodoStats: one scan of the whole collection.
GetTodoStats ==
    /\ LET n == Tally(DOMAIN store,
                      [total |-> 0, pending |-> 0, inProgress |-> 0,
                       completed |-> 0, overdue |-> 0], now)
       IN resp' = [op |-> "stats", code |-> 200, id |-> 0,
                   data |-> [total |-> n.total, pending |-> n.pending,
                             inProgress |-> n.inProgress, completed |-> n.completed,
                             overdue |-> n.overdue,
                             completionRate |-> CompletionRate(n.completed, n.total)]]
    /\ UNCHANGED <<store, nextId, now, inflight, born, deletedOk>>

\* ------------------------------------------- collections and query strings
MaxListDocs == 3    \* documents in the collections of the list specification
MaxPageDocs == 25   \* documents in the collections of the paging specification
MaxClassDocs == 2   \* documents in the collections of the deadline specification
MaxStatDocs == 4    \* documents in the collections of the statistics specification

\* The instant of the requests in the specifications below.
T0 == 2 * MsPerDay

Doc(status, deadline, createdAt) ==
    [title |-> "a", description |-> "", status |-> status, deadline |-> deadline,
     createdAt |-> createdAt, updatedAt |-> createdAt]

\* The state in which the collection is docs, at time T0, and the requests
\* of the bag reqs have been received.
Holding(docs, reqs) ==
    /\ store = docs
    /\ nextId = Len(docs) + 1
    /\ now = T0
    /\ inflight = reqs
    /\ resp = NoResp
    /\ born = [i \in DOMAIN docs |-> docs[i].createdAt]
    /\ deletedOk = {}

\* A query string: each parameter is given (<<value>>) or left out (<<>>).
Query(status, sortBy, order, page, limit) ==
    LET given == [status |-> status, sortBy |-> sortBy, order |-> order,
                  page |-> page, limit |-> limit]
    IN  [k \in {x \in DOMAIN given : given[x] # <<>>} |-> given[k][1]]

Without(q, key) == [k \in (DOMAIN q) \ {key} |-> q[k]]

With(q, key, value) == [k \in (DOMAIN q) \cup {key} |-> IF k = key THEN value ELSE q[k]]

\* -- the list specification: small collections, every kind of parameter
ListDocs ==
    { Doc(st, <<>>, c) : st \in {"pending", "completed"}, c \in {1, 2} }

ListQueries ==
    { Query(st, sb, od, pg, lm) :
        st \in {<<>>, <<"pending">>, <<"done">>},
        sb \in {<<>>, <<"status">>},
        od \in {<<>>, <<"asc">>, <<"up">>},
        pg \in {<<>>, << <<"1">> >>, << <<"2">> >>, << <<"3">> >>, << <<"0">> >>,
                << <<"-", "1">> >>, << <<"x">> >>},
        lm \in {<<>>, << <<"1">> >>, << <<"2">> >>, << <<"0">> >>,
                << <<"-", "1">> >>, << <<"2", "x">> >>, << <<"x">> >>} }

InitList ==
    \E n \in 0..MaxListDocs : \E docs \in [1..n -> ListDocs] : \E q \in ListQueries :
        Holding(docs, SetToBag({ListReq(q)}))

NextList == \E r \in BagToSet(inflight) : GetAllTodos(r)

SpecList == InitList /\ [][NextList]_vars

\* -- the paging specification: collections of up to MaxPageDocs documents
PageDocs(n) ==
    [i \in 1..n |-> Doc(IF i % 5 = 0 THEN "completed" ELSE "pending", <<>>, i \div 2)]

PageQueries ==
    { Query(st, <<>>, <<>>, pg, lm) :
        st \in {<<>>, <<"completed">>},
        pg \in { << <<"1">> >>, << <<"2">> >>, << <<"3">> >>, << <<"4">> >>,
                 << <<"0">> >>, << <<"x">> >> },
        lm \in {<<>>, << <<"1", "0">> >>, << <<"7">> >>} }

InitPage ==
    \E n \in 0..MaxPageDocs : \E q \in PageQueries :
        Holding(PageDocs(n), SetToBag({ListReq(q)}))

NextPage == \E r \in BagToSet(inflight) : GetAllTodos(r)

SpecPage == InitPage /\ [][NextPage]_vars

\* -- the deadline specification: deadlines around the instant of the request
DeadlineOffsets ==
    { 0 - MsPerDay - 1, 0 - MsPerDay, 1 - MsPerDay, 0 - 1000, 0 - 1, 0, 1, 1000,
      MsPerDay, 2 * MsPerDay, 3 * MsPerDay, 3 * MsPerDay + 1, 10 * MsPerDay }

ClassDocs ==
    { Doc("pending", dl, 1) : dl \in {<<>>} \cup { <<T0 + o>> : o \in DeadlineOffsets } }

InitClass ==
    \E n \in 1..MaxClassDocs : \E docs \in [1..n -> ClassDocs] :
        \E q \in {EmptyObj, [order |-> "asc"]} :
            Holding(docs, SetToBag({ListReq(q)}))

NextClass == \E r \in BagToSet(inflight) : GetAllTodos(r)

SpecClass == InitClass /\ [][NextClass]_vars

\* -- the statistics specification: every mix of status and deadline
StatDocs ==
    { Doc(st, dl, 1) : st \in Statuses, dl \in {<<>>, <<T0 - 1>>, <<T0>>, <<T0 + 1>>} }

InitStats ==
    \E n \in 0..MaxStatDocs : \E docs \in [1..n -> StatDocs] : Holding(docs, EmptyBag)

NextStats == GetTodoStats

SpecStats == InitStats /\ [][NextStats]_vars

\* ------------------------------------------------------------- claims

\* The last response is a successful answer to a list request.
ListAnswered == resp.op = "list" /\ resp.code = 200

\* What a list response says: its status code, and its data and pagination
\* when it is a success.
Said(r) == IF r.code = 200 THEN <<r.code, r.data, r.pagination>> ELSE <<r.code>>

\* The documents a list request asks for: those of the given status, when
\* one of the three statuses is given.
Asked(q) ==
    {id \in DOMAIN store :
        ("status" \in DOMAIN q /\ q.status \in Statuses) => store[id].status = q.status}

\* a comes before b in the order a list request asks for.
Precedes(a, b, q) ==
    LET field == IF "sortBy" \in DOMAIN q THEN q.sortBy ELSE "createdAt"
        ka == OrderKey(store[a], field)
        kb == OrderKey(store[b], field)
    IN  IF "order" \in DOMAIN q /\ q.order = "asc"
        THEN ka < kb \/ (ka = kb /\ a < b)
        ELSE ka > kb \/ (ka = kb /\ a > b)

\* C1: for page >= 1 and limit >= 1 the returned data is exactly the
\* documents at positions (page-1)*limit .. (page-1)*limit+limit-1 of the
\* status-filtered collection in the requested order: the i-th returned
\* document has exactly (page-1)*limit + i - 1 documents before it, and the
\* page is as long as the collection allows (empty beyond its end).
C1_PageIsTheRequestedWindow ==
    (/\ ListAnswered
     /\ resp.pagination.page.k = "num" /\ resp.pagination.page.v >= 1
     /\ resp.pagination.limit.v >= 1)
    =>
    LET q     == resp.q
        F     == Asked(q)
        limit == resp.pagination.limit.v
        first == (resp.pagination.page.v - 1) * limit
        left  == Cardinality(F) - first
        size  == IF left <= 0 THEN 0 ELSE IF left < limit THEN left ELSE limit
    IN  /\ Len(resp.data) = size
        /\ \A i \in 1..Len(resp.data) :
              /\ resp.data[i].id \in F
              /\ Cardinality({x \in F : Precedes(x, resp.data[i].id, q)}) = first + i - 1

\* C1 witness: a second page that is not empty, of a collection in which two
\* documents have the same value of the sort field.
C1_Witness ==
    /\ ListAnswered
    /\ resp.pagination.page = Num(2)
    /\ resp.pagination.limit = Num(1)
    /\ Len(resp.data) = 1
    /\ \E a, b \in DOMAIN store : a # b /\ store[a].createdAt = store[b].createdAt
    /\ "sortBy" \notin DOMAIN resp.q

\* C2: for limit >= 1, total is the number of documents matching the status
\* predicate, totalPages = ceil(total / limit), hasNextPage = page <
\* totalPages, hasPrevPage = page > 1; with 25 documents and limit 10, page 1
\* has 10 documents, a next page, no previous page and totalPages 3, and
\* page 3 has 5 documents and no next page.
C2_PaginationMetadata ==
    (ListAnswered /\ resp.pagination.limit.v >= 1)
    =>
    LET pg    == resp.pagination
        limit == pg.limit.v
        isNum == pg.page.k = "num"
    IN  /\ pg.total = Cardinality(Asked(resp.q))
        /\ pg.totalPages.k = "num"
        /\ pg.totalPages.v * limit >= pg.total
        /\ (pg.totalPages.v - 1) * limit < pg.total
        /\ pg.hasNextPage = (isNum /\ pg.page.v < pg.totalPages.v)
        /\ pg.hasPrevPage = (isNum /\ pg.page.v > 1)
        /\ (pg.total = 25 /\ limit = 10 /\ pg.page = Num(1))
             => (Len(resp.data) = 10 /\ pg.hasNextPage /\ ~pg.hasPrevPage
                   /\ pg.totalPages = Num(3))
        /\ (pg.total = 25 /\ limit = 10 /\ pg.page = Num(3))
             => (Len(resp.data) = 5 /\ ~pg.hasNextPage)

\* C2 witness: page 3 of 25 documents with limit 10.
C2_Witness ==
    /\ ListAnswered
    /\ resp.pagination.total = 25
    /\ resp.pagination.limit = Num(10)
    /\ resp.pagination.page = Num(3)
    /\ Len(resp.data) = 5

\* C3: at time T a listed document's deadline status is 'overdue' for the
\* deadline T - 1 s, 'due-today' for T, 'due-soon' for T + 2 days, 'none'
\* for T + 10 days and 'none' without a deadline.
C3_DeadlineStatusExamples ==
    ListAnswered =>
    \A i \in 1..Len(resp.data) :
        LET d  == store[resp.data[i].id].deadline
            st == resp.data[i].deadlineStatus
        IN  /\ d = <<>> => st = "none"
            /\ d = <<now - 1000>> => st = "overdue"
            /\ d = <<now>> => st = "due-today"
            /\ d = <<now + 2 * MsPerDay>> => st = "due-soon"
            /\ d = <<now + 10 * MsPerDay>> => st = "none"

\* The last response is an answer to a stats request.
StatsAnswered == resp.op = "stats" /\ resp.code = 200

HavingStatus(st) == {id \in DOMAIN store : store[id].status = st}

\* C4: stats returns total = the number of documents, pending / inProgress /
\* completed = the number with that status, and overdue = the number whose
\* deadline is strictly before the current time and whose status is not
\* completed; a completed document never counts as overdue.
C4_StatsCounts ==
    StatsAnswered =>
    /\ resp.data.total = Cardinality(DOMAIN store)
    /\ resp.data.pending = Cardinality(HavingStatus("pending"))
    /\ resp.data.inProgress = Cardinality(HavingStatus("in-progress"))
    /\ resp.data.completed = Cardinality(HavingStatus("completed"))
    /\ resp.data.overdue =
         Cardinality({id \in DOMAIN store :
                        /\ store[id].deadline # <<>>
                        /\ store[id].deadline[1] < now
                        /\ store[id].status # "completed"})

\* C4 witness: 2 completed (one with a past deadline), 1 pending and
\* overdue, 1 in progress: total 4, completed 2, overdue 1.
C4_Witness ==
    /\ StatsAnswered
    /\ resp.data.total = 4
    /\ resp.data.completed = 2
    /\ resp.data.pending = 1
    /\ resp.data.overdue = 1
    /\ resp.data.completionRate = 50
    /\ \E id \in HavingStatus("completed") : store[id].deadline = <<now - 1>>
    /\ \E id \in HavingStatus("pending") : store[id].deadline = <<now - 1>>

\* C5: completionRate is completed / total * 100 rounded to the nearest
\* integer (halves up) when total > 0, and 0 for the empty collection; it is
\* an integer between 0 and 100.
C5_CompletionRate ==
    StatsAnswered =>
    LET total     == Cardinality(DOMAIN store)
        completed == Cardinality(HavingStatus("completed"))
        rate      == resp.data.completionRate
    IN  /\ rate \in 0..100
        /\ total = 0 => rate = 0
        /\ total > 0 => /\ 2 * total * rate - 200 * completed <= total
                        /\ 200 * completed - 2 * total * rate < total

\* C5 witness: 2 of 3 completed, where the rate is rounded up to 67.
C5_Witness ==
    /\ StatsAnswered
    /\ Cardinality(DOMAIN store) = 3
    /\ Cardinality(HavingStatus("completed")) = 2
    /\ resp.data.completionRate = 67

\* C6: no list request is executed or answered with a page below 1, a limit
\* below 1 or a negative offset: a bad page or limit is rejected with an
\* error or replaced by a value of at least 1.
C6_PageAndLimitAtLeastOne ==
    ListAnswered =>
    /\ resp.pagination.page.k = "num" /\ resp.pagination.page.v >= 1
    /\ resp.pagination.limit.k = "num" /\ resp.pagination.limit.v >= 1
    /\ resp.offset.k = "num" /\ resp.offset.v >= 0

\* C10: a list request with a status that is not one of the three values is
\* answered exactly as the same request without status (same outcome, data
\* and pagination), and one with an order other than 'asc' exactly as the
\* same request with order 'desc'.
C10_LenientFilterAndOrder ==
    resp.op = "list" =>
    LET q == resp.q
    IN  /\ ("status" \in DOMAIN q /\ q.status \notin Statuses)
             => Said(resp) = Said(ListResponse(Without(q, "status")))
        /\ ("order" \in DOMAIN q /\ q.order # "asc")
             => Said(resp) = Said(ListResponse(With(q, "order", "desc")))

\* C10 witness: a request with status 'done' and order 'up' answered with
\* documents of both statuses.
C10_Witness ==
    /\ ListAnswered
    /\ "status" \in DOMAIN resp.q /\ resp.q.status = "done"
    /\ "order" \in DOMAIN resp.q /\ resp.q.order = "up"
    /\ \E i, j \in 1..Len(resp.data) :
          store[resp.data[i].id].status # store[resp.data[j].id].status

\* C7: a delete request whose id does not resolve to a document when its
\* store delete runs (another delete removed it after the existence check)
\* is answered 404, never with success.
C7_DeleteOfMissingIsNotFound ==
    [][\A id \in DocIds :
         (BagIn(DeleteReq(id), inflight)
            /\ CopiesIn(DeleteReq(id), inflight') < CopiesIn(DeleteReq(id), inflight)
            /\ ~Exists(id))
         => (resp'.op = "delete" /\ resp'.code = 404)]_vars

\* C8: once a delete of an id has reported success the id never resolves to
\* a document again: the store does not hold it, and a get answered after
\* that is answered 404.
C8_DeletedStaysDeleted ==
    \A id \in deletedOk :
        /\ ~Exists(id)
        /\ (resp.op = "get" /\ resp.id = id) => resp.code = 404

\* C8 witness: an update that read the document before the delete took
\* effect wrote after it, and failed.
C8_Witness ==
    /\ resp.op = "update"
    /\ resp.code = 500
    /\ resp.id \in deletedOk

\* C9: every stored document keeps the createdAt stamped at its creation,
\* and createdAt <= updatedAt.
C9_CreatedAtImmutable ==
    \A id \in DOMAIN store :
        /\ store[id].createdAt = born[id]
        /\ store[id].createdAt <= store[id].updatedAt

====
